---- MODULE Spec2Model ----
(***************************************************************************)
(* Model of the sales analytics pipeline: parse_transactions,              *)
(* validate_and_filter, top_selling_products, find_peak_sales_day          *)
(* (src/utils/data_processor.py), create_product_mapping,                  *)
(* enrich_sales_data, fetch_all_products (src/utils/api_handler.py) and    *)
(* main (src/main.py).                                                     *)
(*                                                                         *)
(* Representation.  A Python str is a sequence of one-character strings,   *)
(* so startswith, replace, split and int() are computed on characters.     *)
(* A Python float is an integer number of halves (UnitPrice 2 is 1.0,      *)
(* 3 is 1.5): every float of the model is a small dyadic rational, on      *)
(* which double arithmetic and comparison are exact.  NaN and infinities   *)
(* are outside the model.  An optional value (None or a value) is the      *)
(* sequence <<>> or <<v>>.  A dict is a function on its keys.              *)
(***************************************************************************)
EXTENDS Integers, Sequences, FiniteSets, TLC

VARIABLES
    pc,                    \* position of the run / which operation is next
    raw_lines,             \* lines handed to parse_transactions
    transactions,          \* list of transaction dicts (parsed_transactions)
    region,                \* filter parameter, None or Some(str)
    min_amount,            \* filter parameter, None or Some(float)
    max_amount,            \* filter parameter, None or Some(float)
    valid_transactions,    \* first component returned by validate_and_filter
    invalid_count,         \* second component
    filter_summary,        \* third component
    api_products,          \* catalog snapshot returned by fetch_all_products
    product_mapping,       \* dict built by create_product_mapping
    enriched_transactions, \* list returned by enrich_sales_data
    top_n,                 \* parameter n of top_selling_products
    top_products,          \* list returned by top_selling_products
    peak_day,              \* None or Some(tuple) returned by find_peak_sales_day
    saved_file,            \* None or Some(rows) written by save_enriched_data
    report,                \* sections of the report written so far
    diagnostic,            \* TRUE once main's except branch has printed
    fetch_failed           \* TRUE once fetch_all_products has caught a RequestException

vars == <<pc, raw_lines, transactions, region, min_amount, max_amount,
          valid_transactions, invalid_count, filter_summary,
          api_products, product_mapping, enriched_transactions,
          top_n, top_products, peak_day, saved_file, report, diagnostic,
          fetch_failed>>

filterVars == <<region, min_amount, max_amount>>
validVars  == <<valid_transactions, invalid_count, filter_summary>>
apiVars    == <<api_products, product_mapping, enriched_transactions>>
aggVars    == <<top_n, top_products, peak_day>>
outVars    == <<saved_file, report, diagnostic, fetch_failed>>

-----------------------------------------------------------------------------
(* Bounds of the model *)

MaxTx == 2      \* longest transaction list given to a function

-----------------------------------------------------------------------------
(* Python values *)

None == <<>>
Some(v) == <<v>>

\* str literals used as inputs
S_T1     == <<"T", "1">>
S_T2     == <<"T", "2">>
S_X1     == <<"X", "1">>
S_C1     == <<"C", "1">>
S_C2     == <<"C", "2">>
S_D1     == <<"2", "0", "2", "4", "-", "0", "1", "-", "0", "1">>
S_D2     == <<"2", "0", "2", "4", "-", "0", "1", "-", "0", "2">>
S_D3     == <<"2", "0", "2", "4", "-", "0", "1", "-", "0", "3">>
S_P101   == <<"P", "1", "0", "1">>
S_P102   == <<"P", "1", "0", "2">>
S_P999   == <<"P", "9", "9", "9">>
S_X101   == <<"X", "1", "0", "1">>
S_Widget == <<"W", "i", "d", "g", "e", "t">>
S_Gadget == <<"G", "a", "d", "g", "e", "t">>
S_Bolt   == <<"B", "o", "l", "t">>
S_North  == <<"N", "o", "r", "t", "h">>
S_South  == <<"S", "o", "u", "t", "h">>
S_West   == <<"W", "e", "s", "t">>
S_Empty  == <<>>

\* str.startswith(c) for a one-character c
StartsWith(s, c) == Len(s) >= 1 /\ s[1] = c

\* the dict literal of parse_transactions
Tx(tid, date, pid, pname, qty, price, cid, reg) ==
    [TransactionID |-> tid, Date |-> date, ProductID |-> pid,
     ProductName |-> pname, Quantity |-> qty, UnitPrice |-> price,
     CustomerID |-> cid, Region |-> reg]

\* dict without one key
Without(d, k) == [f \in DOMAIN d \ {k} |-> d[f]]

\* d[k] = v on a dict (adds the key when absent)
DictSet(d, k, v) == [f \in DOMAIN d \cup {k} |-> IF f = k THEN v ELSE d[f]]

\* all sequences over S of length 0..n
SeqsUpTo(S, n) == UNION {[1..k -> S] : k \in 0..n}

-----------------------------------------------------------------------------
(* validate_and_filter *)

required_fields == {"TransactionID", "Date", "ProductID", "ProductName",
                    "Quantity", "UnitPrice", "CustomerID", "Region"}

NumericFields == {"Quantity", "UnitPrice"}

\* Python truthiness of tx[field]: a number is falsy when 0, a str when empty
Truthy(field, v) == IF field \in NumericFields THEN v # 0 ELSE v # <<>>

\* all(field in tx and tx[field] for field in required_fields)
HasRequiredFields(tx) ==
    \A field \in required_fields : field \in DOMAIN tx /\ Truthy(field, tx[field])

\* the five validation rules, negated as in the code's if
BreaksRules_NoCustomerCheck(tx) ==
    \/ tx["Quantity"] <= 0
    \/ tx["UnitPrice"] <= 0
    \/ ~StartsWith(tx["TransactionID"], "T")
    \/ ~StartsWith(tx["ProductID"], "P")

BreaksRules(tx) ==
    \/ tx["Quantity"] <= 0
    \/ tx["UnitPrice"] <= 0
    \/ ~StartsWith(tx["TransactionID"], "T")
    \/ ~StartsWith(tx["ProductID"], "P")
    \/ ~StartsWith(tx["CustomerID"], "C")

\* tx["Amount"] = tx["Quantity"] * tx["UnitPrice"]  (in place on the input dict)
AttachAmount(tx) == DictSet(tx, "Amount", tx["Quantity"] * tx["UnitPrice"])

\* The validation loop: the state after the loop over txs, as
\* [txs: the input list after the in-place writes, valid, invalid].
RECURSIVE ValidationLoop(_, _)
ValidationLoop(txs, acc) ==
    IF txs = <<>> THEN acc
    ELSE LET tx == Head(txs) IN
         IF ~HasRequiredFields(tx) \/ BreaksRules(tx)
         THEN ValidationLoop(Tail(txs),
                  [txs |-> Append(acc.txs, tx), valid |-> acc.valid,
                   invalid |-> acc.invalid + 1])
         ELSE ValidationLoop(Tail(txs),
                  [txs |-> Append(acc.txs, AttachAmount(tx)),
                   valid |-> Append(acc.valid, AttachAmount(tx)),
                   invalid |-> acc.invalid])

\* `if region:` is false for None and for the empty str
RegionGiven(r) == r # None /\ r[1] # <<>>

\* the region pass: [tx for tx in valid_transactions if tx["Region"] == region]
RegionPass(valid, r) ==
    IF RegionGiven(r)
    THEN LET Keep(tx) == tx["Region"] = r[1] IN SelectSeq(valid, Keep)
    ELSE valid

\* the min_amount pass (`is not None`)
MinPass_Strict(valid, mn) ==
    IF mn # None
    THEN LET Keep(tx) == tx["Amount"] > mn[1] IN SelectSeq(valid, Keep)
    ELSE valid

MinPass(valid, mn) ==
    IF mn # None
    THEN LET Keep(tx) == tx["Amount"] >= mn[1] IN SelectSeq(valid, Keep)
    ELSE valid

\* the max_amount pass (`is not None`)
MaxPass(valid, mx) ==
    IF mx # None
    THEN LET Keep(tx) == tx["Amount"] <= mx[1] IN SelectSeq(valid, Keep)
    ELSE valid

\* filtered_by_region = before - len(valid_transactions), 0 when no region pass
FilteredByRegion_Kept(before, after, r) ==
    IF RegionGiven(r) THEN Len(after) ELSE 0

FilteredByRegion(before, after, r) ==
    IF RegionGiven(r) THEN Len(before) - Len(after) ELSE 0

validate_and_filter_AmountOverwritten(txs, r, mn, mx) ==
    LET loop     == ValidationLoop(txs, [txs |-> <<>>, valid |-> <<>>, invalid |-> 0])
        afterReg == RegionPass(loop.valid, r)
        afterMin == MinPass(afterReg, mn)
        afterMax == MaxPass(afterMin, mx)
    IN  [txs     |-> loop.txs,
         valid   |-> afterMax,
         invalid |-> loop.invalid,
         summary |-> [total_input        |-> Len(txs),
                      invalid            |-> loop.invalid,
                      filtered_by_region |-> FilteredByRegion(loop.valid, afterReg, r),
                      filtered_by_amount |-> IF mx # None
                                             THEN Len(afterMin) - Len(afterMax)
                                             ELSE Len(afterReg) - Len(afterMin),
                      final_count        |-> Len(afterMax)]]

\* validate_and_filter(transactions, region, min_amount, max_amount):
\* [txs, valid, invalid_count, summary]
validate_and_filter(txs, r, mn, mx) ==
    LET loop     == ValidationLoop(txs, [txs |-> <<>>, valid |-> <<>>, invalid |-> 0])
        afterReg == RegionPass(loop.valid, r)
        afterMin == MinPass(afterReg, mn)
        afterMax == MaxPass(afterMin, mx)
    IN  [txs     |-> loop.txs,
         valid   |-> afterMax,
         invalid |-> loop.invalid,
         summary |-> [total_input        |-> Len(txs),
                      invalid            |-> loop.invalid,
                      filtered_by_region |-> FilteredByRegion(loop.valid, afterReg, r),
                      filtered_by_amount |-> (Len(afterReg) - Len(afterMin))
                                             + (Len(afterMin) - Len(afterMax)),
                      final_count        |-> Len(afterMax)]]

NoSummary == [total_input |-> 0, invalid |-> 0, filtered_by_region |-> 0,
              filtered_by_amount |-> 0, final_count |-> 0]

\* step [4/10] of main, and the call of the function on its own
ValidateAndFilter ==
    /\ pc = "validate"
    /\ LET res == validate_and_filter(transactions, region, min_amount, max_amount) IN
         /\ transactions' = res.txs
         /\ valid_transactions' = res.valid
         /\ invalid_count' = res.invalid
         /\ filter_summary' = res.summary
    /\ pc' = "fetch"
    /\ UNCHANGED <<raw_lines, filterVars, apiVars, aggVars, outVars>>

-----------------------------------------------------------------------------
(* Inputs of validate_and_filter taken on its own *)

ValidInputs ==
    {Tx(S_T1, S_D1, S_P101, S_Widget, q, 2, S_C1, r) :
        q \in {1, 2}, r \in {S_North, S_South}}

InvalidInputs ==
    { Tx(S_T1, S_D1, S_P101, S_Widget, 0, 2, S_C1, S_North),
      Tx(S_T1, S_D1, S_P101, S_Widget, 1, 0, S_C1, S_North),
      Tx(S_T1, S_D1, S_P101, S_Widget, -1, 2, S_C1, S_South),
      Tx(S_X1, S_D1, S_P101, S_Widget, 1, 2, S_C1, S_North),
      Tx(S_T1, S_D1, S_X101, S_Widget, 1, 2, S_C1, S_North),
      Tx(S_T1, S_D1, S_P101, S_Widget, 1, 2, S_X1, S_South),
      Tx(S_T1, S_D1, S_P101, S_Widget, 1, 2, S_C1, S_Empty),
      Without(Tx(S_T1, S_D1, S_P101, S_Widget, 2, 2, S_C1, S_North), "Date") }

ValidateUniverse == ValidInputs \cup InvalidInputs

RegionChoices == {None, Some(S_Empty), Some(S_North), Some(S_West)}
MinChoices    == {None, Some(0), Some(4)}
MaxChoices    == {None, Some(0), Some(2)}

InitRest ==
    /\ valid_transactions = <<>>
    /\ invalid_count = 0
    /\ filter_summary = NoSummary
    /\ api_products = <<>>
    /\ product_mapping = <<>>
    /\ enriched_transactions = <<>>
    /\ top_n = 0
    /\ top_products = <<>>
    /\ peak_day = None
    /\ saved_file = None
    /\ report = <<>>
    /\ diagnostic = FALSE
    /\ fetch_failed = FALSE

InitValidate ==
    /\ pc = "validate"
    /\ raw_lines = <<>>
    /\ transactions \in SeqsUpTo(ValidateUniverse, MaxTx)
    /\ region \in RegionChoices
    /\ min_amount \in MinChoices
    /\ max_amount \in MaxChoices
    /\ InitRest

NextValidate == ValidateAndFilter

SpecValidate == InitValidate /\ [][NextValidate]_vars

-----------------------------------------------------------------------------
(* create_product_mapping and enrich_sales_data *)

MaxCatalog == 2     \* longest catalog snapshot

Digits == {"0", "1", "2", "3", "4", "5", "6", "7", "8", "9"}

DigitValue(c) ==
    CASE c = "0" -> 0 [] c = "1" -> 1 [] c = "2" -> 2 [] c = "3" -> 3
      [] c = "4" -> 4 [] c = "5" -> 5 [] c = "6" -> 6 [] c = "7" -> 7
      [] c = "8" -> 8 [] c = "9" -> 9

\* value of a non-empty run of decimal digits
RECURSIVE DigitsValue(_)
DigitsValue(s) ==
    IF Len(s) = 0 THEN 0
    ELSE 10 * DigitsValue(SubSeq(s, 1, Len(s) - 1)) + DigitValue(s[Len(s)])

AllDigits(s) == Len(s) >= 1 /\ \A i \in 1..Len(s) : s[i] \in Digits

\* Python int(str): an optional sign, then decimal digits; anything else
\* raises ValueError, modelled as None.  (Surrounding whitespace and "_"
\* separators, which int() also accepts, are not in the alphabet of the model.)
PyInt(s) ==
    IF AllDigits(s) THEN Some(DigitsValue(s))
    ELSE IF Len(s) >= 2 /\ s[1] = "-" /\ AllDigits(Tail(s)) THEN Some(0 - DigitsValue(Tail(s)))
    ELSE IF Len(s) >= 2 /\ s[1] = "+" /\ AllDigits(Tail(s)) THEN Some(DigitsValue(Tail(s)))
    ELSE None

\* str.replace(c, "") for a one-character c: every occurrence is removed
ReplaceAll(s, c) == LET Keep(x) == x # c IN SelectSeq(s, Keep)

\* product_mapping[k] = v
MapPut(m, k, v) == [x \in DOMAIN m \cup {k} |-> IF x = k THEN v ELSE m[x]]

\* a catalog product: product.get(...) is None for an absent or null field
Product(id, category, brand, rating) ==
    [id |-> id, category |-> category, brand |-> brand, rating |-> rating]

\* create_product_mapping(api_products)
RECURSIVE create_product_mapping_from(_, _)
create_product_mapping_from(products, mapping) ==
    IF products = <<>> THEN mapping
    ELSE LET product == Head(products) IN
         IF product.id = None
         THEN create_product_mapping_from(Tail(products), mapping)
         ELSE create_product_mapping_from(Tail(products),
                  MapPut(mapping, product.id[1],
                         [category |-> product.category,
                          brand    |-> product.brand,
                          rating   |-> product.rating]))

create_product_mapping(products) == create_product_mapping_from(products, <<>>)

\* the four writes of one branch of enrich_sales_data
WithApi(tx, category, brand, rating, match) ==
    DictSet(DictSet(DictSet(DictSet(tx, "API_Category", category),
                            "API_Brand", brand),
                    "API_Rating", rating),
            "API_Match", match)

\* tx.get("ProductID", "")
GetProductID(tx) == IF "ProductID" \in DOMAIN tx THEN tx["ProductID"] ELSE <<>>

\* numeric_id = int(product_id_str.replace("P", "")), None when int() raises
NumericId(tx) == PyInt(ReplaceAll(GetProductID(tx), "P"))

\* api_id = numeric_id - 100
ApiId_NoOffset(numeric_id) == numeric_id

ApiId(numeric_id) == numeric_id - 100

\* the body of the try block and its except branch, applied to the copy
EnrichedCopy(tx, mapping) ==
    LET numeric_id == NumericId(tx) IN
    IF numeric_id = None
    THEN WithApi(tx, None, None, None, FALSE)                 \* except Exception
    ELSE IF ApiId(numeric_id[1]) \in DOMAIN mapping
         THEN LET api_product == mapping[ApiId(numeric_id[1])] IN
              WithApi(tx, api_product.category, api_product.brand,
                      api_product.rating, TRUE)
         ELSE WithApi(tx, None, None, None, FALSE)

\* one iteration of the loop: enriched_tx = tx.copy() leaves tx as it was;
\* [input: tx after the iteration, enriched: the dict appended]
EnrichStep_NoCopy(tx, mapping) ==
    [input |-> EnrichedCopy(tx, mapping), enriched |-> EnrichedCopy(tx, mapping)]

EnrichStep(tx, mapping) ==
    [input |-> tx, enriched |-> EnrichedCopy(tx, mapping)]

\* enrich_sales_data(transactions, product_mapping):
\* [transactions: the input list after the call, enriched: the list returned]
RECURSIVE enrich_sales_data_from(_, _, _)
enrich_sales_data_from(txs, mapping, acc) ==
    IF txs = <<>> THEN acc
    ELSE LET step == EnrichStep(Head(txs), mapping) IN
         enrich_sales_data_from(Tail(txs), mapping,
             [transactions |-> Append(acc.transactions, step.input),
              enriched     |-> Append(acc.enriched, step.enriched)])

enrich_sales_data(txs, mapping) ==
    enrich_sales_data_from(txs, mapping, [transactions |-> <<>>, enriched |-> <<>>])

\* step [7/10] of main, first statement
CreateProductMapping ==
    /\ pc = "mapping"
    /\ product_mapping' = create_product_mapping(api_products)
    /\ pc' = "enrich"
    /\ UNCHANGED <<raw_lines, transactions, filterVars, validVars, api_products,
                   enriched_transactions, aggVars, outVars>>

\* step [7/10] of main, second statement
EnrichSalesData ==
    /\ pc = "enrich"
    /\ LET res == enrich_sales_data(valid_transactions, product_mapping) IN
         /\ valid_transactions' = res.transactions
         /\ enriched_transactions' = res.enriched
    /\ pc' = "save"
    /\ UNCHANGED <<raw_lines, transactions, filterVars, invalid_count, filter_summary,
                   api_products, product_mapping, aggVars, outVars>>

(* Inputs of the two functions taken on their own *)

S_PP101  == <<"P", "P", "1", "0", "1">>
S_P1P01  == <<"P", "1", "P", "0", "1">>
S_P      == <<"P">>
S_Pab    == <<"P", "a", "b">>

EnrichProductIDs == {S_P101, S_P999, S_PP101, S_P1P01, S_P, S_Pab}

EnrichUniverse ==
    {AttachAmount(Tx(S_T1, S_D1, pid, S_Widget, 1, 2, S_C1, S_North)) :
        pid \in EnrichProductIDs}

CatalogUniverse ==
    { Product(None, Some("none"), Some("none"), Some(2)),
      Product(Some(1), Some("beauty"), Some("Essence"), Some(9)),
      Product(Some(1), Some("fragrances"), None, None),
      Product(Some(899), Some("tools"), Some("Acme"), Some(7)) }

InitEnrich ==
    /\ pc = "mapping"
    /\ raw_lines = <<>>
    /\ transactions = <<>>
    /\ region = None /\ min_amount = None /\ max_amount = None
    /\ valid_transactions \in SeqsUpTo(EnrichUniverse, MaxTx)
    /\ invalid_count = 0
    /\ filter_summary = NoSummary
    /\ api_products \in SeqsUpTo(CatalogUniverse, MaxCatalog)
    /\ product_mapping = <<>>
    /\ enriched_transactions = <<>>
    /\ top_n = 0 /\ top_products = <<>> /\ peak_day = None
    /\ saved_file = None /\ report = <<>> /\ diagnostic = FALSE
    /\ fetch_failed = FALSE

NextEnrich == CreateProductMapping \/ EnrichSalesData

SpecEnrich == InitEnrich /\ [][NextEnrich]_vars

-----------------------------------------------------------------------------
(* top_selling_products and find_peak_sales_day *)

MaxAggTx == 3   \* longest transaction list given to an aggregation
MaxN == 3       \* largest n given to top_selling_products

\* position of key in an insertion-ordered dict kept as a list of entries, 0 if absent
IndexOfKey(entries, key) ==
    IF \E i \in 1..Len(entries) : entries[i].key = key
    THEN CHOOSE i \in 1..Len(entries) : entries[i].key = key
    ELSE 0

\* Step 1 of top_selling_products: product_stats in insertion order
RECURSIVE AggregateProducts(_, _)
AggregateProducts(txs, product_stats) ==
    IF txs = <<>> THEN product_stats
    ELSE LET tx       == Head(txs)
             product  == tx["ProductName"]
             quantity == tx["Quantity"]
             revenue  == quantity * tx["UnitPrice"]
             at       == IndexOfKey(product_stats, product)
             started  == IF at = 0
                         THEN Append(product_stats,
                                  [key |-> product, total_quantity |-> 0,
                                   total_revenue |-> 0])
                         ELSE product_stats
             i        == IF at = 0 THEN Len(started) ELSE at
         IN  AggregateProducts(Tail(txs),
                 [started EXCEPT ![i].total_quantity = @ + quantity,
                                 ![i].total_revenue = @ + revenue])

\* Step 2: the list of tuples (product, total_quantity, total_revenue)
ProductList(product_stats) ==
    [i \in 1..Len(product_stats) |->
        <<product_stats[i].key, product_stats[i].total_quantity,
          product_stats[i].total_revenue>>]

\* list.sort(key=lambda x: x[1], reverse=True) is stable: an element goes
\* behind every element whose key is greater or equal
InsertDesc_BeforeTies(sorted, e) ==
    LET ahead == Cardinality({i \in 1..Len(sorted) : sorted[i][2] > e[2]})
    IN  SubSeq(sorted, 1, ahead) \o <<e>> \o SubSeq(sorted, ahead + 1, Len(sorted))

InsertDesc(sorted, e) ==
    LET ahead == Cardinality({i \in 1..Len(sorted) : sorted[i][2] >= e[2]})
    IN  SubSeq(sorted, 1, ahead) \o <<e>> \o SubSeq(sorted, ahead + 1, Len(sorted))

\* Step 3
RECURSIVE SortByQuantityDesc(_)
SortByQuantityDesc(list) ==
    IF list = <<>> THEN <<>>
    ELSE InsertDesc(SortByQuantityDesc(SubSeq(list, 1, Len(list) - 1)), list[Len(list)])

\* Step 4: product_list[:n] for n >= 0
FirstN(list, n) == SubSeq(list, 1, IF n < Len(list) THEN n ELSE Len(list))

top_selling_products(txs, n) ==
    FirstN(SortByQuantityDesc(ProductList(AggregateProducts(txs, <<>>))), n)

\* Step 1 of find_peak_sales_day: daily_totals in insertion order
RECURSIVE AggregateDays(_, _)
AggregateDays(txs, daily_totals) ==
    IF txs = <<>> THEN daily_totals
    ELSE LET tx      == Head(txs)
             date    == tx["Date"]
             revenue == tx["Quantity"] * tx["UnitPrice"]
             at      == IndexOfKey(daily_totals, date)
             started == IF at = 0
                        THEN Append(daily_totals,
                                 [key |-> date, revenue |-> 0, transaction_count |-> 0])
                        ELSE daily_totals
             i       == IF at = 0 THEN Len(started) ELSE at
         IN  AggregateDays(Tail(txs),
                 [started EXCEPT ![i].revenue = @ + revenue,
                                 ![i].transaction_count = @ + 1])

\* max(items, key=revenue) on a non-empty list: the first item no later item
\* exceeds is kept (a later item replaces it only when strictly greater)
RECURSIVE MaxByRevenue_LastTie(_, _)
MaxByRevenue_LastTie(items, best) ==
    IF items = <<>> THEN best
    ELSE MaxByRevenue_LastTie(Tail(items),
             IF Head(items).revenue >= best.revenue THEN Head(items) ELSE best)

RECURSIVE MaxByRevenue(_, _)
MaxByRevenue(items, best) ==
    IF items = <<>> THEN best
    ELSE MaxByRevenue(Tail(items),
             IF Head(items).revenue > best.revenue THEN Head(items) ELSE best)

\* find_peak_sales_day(transactions): Some((date, revenue, transaction_count)),
\* or None when max() raises ValueError on an empty daily_totals
find_peak_sales_day(txs) ==
    LET daily_totals == AggregateDays(txs, <<>>) IN
    IF daily_totals = <<>> THEN None
    ELSE LET peak_date == MaxByRevenue(Tail(daily_totals), Head(daily_totals))
         IN  Some(<<peak_date.key, peak_date.revenue, peak_date.transaction_count>>)

\* a call of top_selling_products(transactions, n)
TopSellingProducts ==
    /\ pc = "top"
    /\ \E n \in 0..MaxN :
         /\ top_n' = n
         /\ top_products' = top_selling_products(transactions, n)
    /\ pc' = "peak"
    /\ UNCHANGED <<raw_lines, transactions, filterVars, validVars, apiVars,
                   peak_day, outVars>>

\* a call of find_peak_sales_day(transactions)
FindPeakSalesDay ==
    /\ pc = "peak"
    /\ peak_day' = find_peak_sales_day(transactions)
    /\ pc' = IF find_peak_sales_day(transactions) = None THEN "raised" ELSE "returned"
    /\ UNCHANGED <<raw_lines, transactions, filterVars, validVars, apiVars,
                   top_n, top_products, outVars>>

(* Inputs of the aggregations: valid transactions *)

AggUniverse ==
    {AttachAmount(Tx(S_T1, d, S_P101, S_Widget, q, p, S_C1, S_North)) :
        d \in {S_D1}, q \in {1, 2}, p \in {2, 3}}
    \cup
    {AttachAmount(Tx(S_T2, d, S_P102, name, q, 2, S_C2, S_South)) :
        d \in {S_D2, S_D3}, name \in {S_Gadget, S_Bolt}, q \in {2}}
    \cup
    {AttachAmount(Tx(S_T2, S_D2, S_P102, S_Gadget, 1, 2, S_C2, S_South))}

InitAgg ==
    /\ pc = "top"
    /\ raw_lines = <<>>
    /\ transactions \in SeqsUpTo(AggUniverse, MaxAggTx)
    /\ region = None /\ min_amount = None /\ max_amount = None
    /\ InitRest

NextAgg == TopSellingProducts \/ FindPeakSalesDay

SpecAgg == InitAgg /\ [][NextAgg]_vars

-----------------------------------------------------------------------------
(* parse_transactions *)

MaxLines == 2   \* longest list of raw lines

\* line.split("|"): the fields between the separators, at least one
RECURSIVE SplitFrom(_, _, _)
SplitFrom(line, sep, current) ==
    IF line = <<>> THEN <<current>>
    ELSE IF Head(line) = sep
         THEN <<current>> \o SplitFrom(Tail(line), sep, <<>>)
         ELSE SplitFrom(Tail(line), sep, Append(current, Head(line)))

Split(line, sep) == SplitFrom(line, sep, <<>>)

\* `if len(parts) != 8: continue`
HasEightFields_AtLeast(parts) == Len(parts) >= 8

HasEightFields(parts) == Len(parts) = 8

AllZeros(s) == \A i \in 1..Len(s) : s[i] = "0"

\* the fraction digits of a float literal, in halves; the literals of the
\* model have the fractions "", "0" and "5" only
Halves(frac) ==
    CASE AllZeros(frac) -> 0
      [] Len(frac) >= 1 /\ frac[1] = "5" /\ AllZeros(Tail(frac)) -> 1

\* Python float(str) for plain decimal literals, in halves; None when it
\* raises ValueError.  (Exponents, "inf", "nan", whitespace and "_" are not
\* in the alphabet of the model.)
PyFloatUnsigned(s) ==
    LET dots == {i \in 1..Len(s) : s[i] = "."} IN
    IF dots = {} THEN (IF AllDigits(s) THEN Some(2 * DigitsValue(s)) ELSE None)
    ELSE IF Cardinality(dots) > 1 THEN None
    ELSE LET d    == CHOOSE i \in dots : TRUE
             ip   == SubSeq(s, 1, d - 1)
             frac == SubSeq(s, d + 1, Len(s))
         IN  IF /\ ip = <<>> \/ AllDigits(ip)
                /\ frac = <<>> \/ AllDigits(frac)
                /\ ~(ip = <<>> /\ frac = <<>>)
             THEN Some(2 * DigitsValue(ip) + Halves(frac))
             ELSE None

PyFloat(s) ==
    IF Len(s) >= 1 /\ s[1] = "-"
    THEN (IF PyFloatUnsigned(Tail(s)) = None THEN None
          ELSE Some(0 - PyFloatUnsigned(Tail(s))[1]))
    ELSE IF Len(s) >= 1 /\ s[1] = "+" THEN PyFloatUnsigned(Tail(s))
    ELSE PyFloatUnsigned(s)

\* the body of the loop for one 8-field line: Some(transaction), or None
\* when int() or float() raises ValueError
ParseLine(parts) ==
    LET product_name == ReplaceAll(parts[4], ",")
        quantity     == PyInt(ReplaceAll(parts[5], ","))
        unit_price   == PyFloat(ReplaceAll(parts[6], ","))
    IN  IF quantity = None \/ unit_price = None THEN None
        ELSE Some(Tx(parts[1], parts[2], parts[3], product_name,
                     quantity[1], unit_price[1], parts[7], parts[8]))

\* parse_transactions(raw_lines): Some(cleaned_data), or None when the loop
\* is left by a ValueError
RECURSIVE parse_transactions_from_SkipBad(_, _)
parse_transactions_from_SkipBad(lines, cleaned_data) ==
    IF lines = <<>> THEN Some(cleaned_data)
    ELSE LET parts == Split(Head(lines), "|") IN
         IF ~HasEightFields(parts) \/ ParseLine(parts) = None
         THEN parse_transactions_from_SkipBad(Tail(lines), cleaned_data)
         ELSE parse_transactions_from_SkipBad(Tail(lines),
                  Append(cleaned_data, ParseLine(parts)[1]))

RECURSIVE parse_transactions_from(_, _)
parse_transactions_from(lines, cleaned_data) ==
    IF lines = <<>> THEN Some(cleaned_data)
    ELSE LET parts == Split(Head(lines), "|") IN
         IF ~HasEightFields(parts)
         THEN parse_transactions_from(Tail(lines), cleaned_data)
         ELSE IF ParseLine(parts) = None THEN None
              ELSE parse_transactions_from(Tail(lines),
                       Append(cleaned_data, ParseLine(parts)[1]))

parse_transactions(lines) == parse_transactions_from(lines, <<>>)

\* step [2/10] of main, and the call of the function on its own; an
\* exception leaves for main's except branch
ParseTransactions ==
    /\ pc = "parse"
    /\ LET parsed == parse_transactions(raw_lines) IN
         IF parsed = None
         THEN /\ pc' = "except"
              /\ UNCHANGED transactions
         ELSE /\ pc' = "options"
              /\ transactions' = parsed[1]
    /\ UNCHANGED <<raw_lines, filterVars, validVars, apiVars, aggVars, outVars>>

(* Raw lines *)

\* "|".join(fields)
RECURSIVE Join(_)
Join(fields) ==
    IF Len(fields) = 1 THEN fields[1]
    ELSE fields[1] \o <<"|">> \o Join(Tail(fields))

S_2      == <<"2">>
S_0      == <<"0">>
S_1c0    == <<"1", ",", "0">>
S_1p5    == <<"1", ".", "5">>
S_2p0    == <<"2", ".", "0">>
S_abc    == <<"a", "b", "c">>
S_Wid_get == <<"W", "i", "d", ",", "g", "e", "t">>

\* T1|2024-01-01|P101|Wid,get|2|1.5|C1|North
L_Widget == Join(<<S_T1, S_D1, S_P101, S_Wid_get, S_2, S_1p5, S_C1, S_North>>)
\* T2|2024-01-02|PP101|Gadget|1,0|2.0|C2|South
L_Gadget == Join(<<S_T2, S_D2, S_PP101, S_Gadget, S_1c0, S_2p0, S_C2, S_South>>)
\* T2|2024-01-02|P999|Bolt|2|2|C1|North
L_Bolt   == Join(<<S_T2, S_D2, S_P999, S_Bolt, S_2, S_2, S_C1, S_North>>)
\* a record validation rejects: Quantity 0
L_Zero   == Join(<<S_T1, S_D1, S_P101, S_Widget, S_0, S_2, S_C1, S_North>>)
\* seven fields, nine fields, an empty line
L_Seven  == Join(<<S_T1, S_D1, S_P101, S_Widget, S_2, S_2, S_C1>>)
L_Nine   == Join(<<S_T1, S_D1, S_P101, S_Widget, S_2, S_2, S_C1, S_North, S_X1>>)
L_Blank  == <<>>
\* eight fields with a Quantity / a UnitPrice that is no number
L_BadQty   == Join(<<S_T1, S_D1, S_P101, S_Widget, S_abc, S_2, S_C1, S_North>>)
L_BadPrice == Join(<<S_T1, S_D1, S_P101, S_Widget, S_2, S_Empty, S_C1, S_North>>)

LineUniverse == {L_Widget, L_Gadget, L_Bolt, L_Zero, L_Seven, L_Nine, L_Blank,
                 L_BadQty, L_BadPrice}

InitParse ==
    /\ pc = "parse"
    /\ raw_lines \in SeqsUpTo(LineUniverse, MaxLines)
    /\ transactions = <<>>
    /\ region = None /\ min_amount = None /\ max_amount = None
    /\ valid_transactions = <<>>
    /\ invalid_count = 0
    /\ filter_summary = NoSummary
    /\ api_products = <<>>
    /\ product_mapping = <<>>
    /\ enriched_transactions = <<>>
    /\ top_n = 0 /\ top_products = <<>> /\ peak_day = None
    /\ saved_file = None /\ report = <<>> /\ diagnostic = FALSE
    /\ fetch_failed = FALSE

NextParse == ParseTransactions

SpecParse == InitParse /\ [][NextParse]_vars

-----------------------------------------------------------------------------
(* main, fetch_all_products, save_enriched_data, generate_sales_report *)

TopCount == 5   \* top_selling_products(transactions, n=5) in the report

\* step [3/10]: min(amounts) / max(amounts) raise ValueError on an empty list
ShowFilterOptions ==
    /\ pc = "options"
    /\ pc' = IF transactions = <<>> THEN "except" ELSE "ask"
    /\ UNCHANGED <<raw_lines, transactions, filterVars, validVars, apiVars,
                   aggVars, outVars>>

\* answers typed at the prompts, after .strip()
RegionAnswers == {S_Empty, S_North, S_West}
MinAnswers    == {S_Empty, <<"2">>, S_abc}
MaxAnswers    == {S_Empty, <<"1", ".", "5">>}

\* `float(val) if val else None`: None stands for "skip" here, so the
\* conversion is asked for separately
AmountGiven(val) == val # <<>>

\* the prompts of step [3/10]; float() of a non-numeric answer raises
AskFilters ==
    /\ pc = "ask"
    /\ \/ /\ region' = None /\ min_amount' = None /\ max_amount' = None
          /\ pc' = "validate"
       \/ \E r \in RegionAnswers, min_val \in MinAnswers, max_val \in MaxAnswers :
            /\ region' = IF r = <<>> THEN None ELSE Some(r)
            /\ IF \/ AmountGiven(min_val) /\ PyFloat(min_val) = None
                  \/ AmountGiven(max_val) /\ PyFloat(max_val) = None
               THEN /\ pc' = "except"
                    /\ UNCHANGED <<min_amount, max_amount>>
               ELSE /\ min_amount' = IF AmountGiven(min_val) THEN PyFloat(min_val) ELSE None
                    /\ max_amount' = IF AmountGiven(max_val) THEN PyFloat(max_val) ELSE None
                    /\ pc' = "validate"
    /\ UNCHANGED <<raw_lines, transactions, validVars, apiVars, aggVars, outVars>>

\* catalogs the service may answer with
FetchedCatalogs ==
    { <<>>,
      <<Product(Some(1), Some("beauty"), Some("Essence"), Some(9))>>,
      <<Product(Some(1), Some("beauty"), Some("Essence"), Some(9)),
        Product(Some(899), Some("tools"), Some("Acme"), Some(7))>> }

\* step [6/10], fetch_all_products(): the products of the response, or []
\* when requests.get / raise_for_status raise a RequestException
FetchAllProducts ==
    /\ pc = "fetch"
    /\ \/ /\ api_products' \in FetchedCatalogs
          /\ UNCHANGED fetch_failed
       \/ /\ api_products' = <<>>
          /\ fetch_failed' = TRUE
    /\ pc' = "mapping"
    /\ UNCHANGED <<raw_lines, transactions, filterVars, validVars, product_mapping,
                   enriched_transactions, aggVars, saved_file, report, diagnostic>>

\* step [8/10], save_enriched_data(): the header and one row per record
\* (the number of data rows is kept); the file system is taken to be writable
SaveEnrichedData ==
    /\ pc = "save"
    /\ saved_file' = Some(Len(enriched_transactions))
    /\ pc' = "report"
    /\ UNCHANGED <<raw_lines, transactions, filterVars, validVars, apiVars, aggVars,
                   report, diagnostic, fetch_failed>>

SectionsBeforePeak ==
    <<"header", "overall_summary", "region_wise", "top_products",
      "top_customers", "daily_trend">>

SectionsAfterPeak == <<"product_performance", "api_enrichment">>

\* step [9/10], generate_sales_report(): sections 1-6 are written, then
\* find_peak_sales_day is called; its ValueError leaves the function with
\* the file closed after section 6
GenerateSalesReport ==
    /\ pc = "report"
    /\ top_n' = TopCount
    /\ top_products' = top_selling_products(valid_transactions, TopCount)
    /\ peak_day' = find_peak_sales_day(valid_transactions)
    /\ IF find_peak_sales_day(valid_transactions) = None
       THEN /\ report' = SectionsBeforePeak
            /\ pc' = "except"
       ELSE /\ report' = SectionsBeforePeak \o SectionsAfterPeak
            /\ pc' = "finish"
    /\ UNCHANGED <<raw_lines, transactions, filterVars, validVars, apiVars,
                   saved_file, diagnostic, fetch_failed>>

\* step [10/10]
Finish ==
    /\ pc = "finish"
    /\ pc' = "done"
    /\ UNCHANGED <<raw_lines, transactions, filterVars, validVars, apiVars,
                   aggVars, outVars>>

\* `except Exception as e:` of main
Except ==
    /\ pc = "except"
    /\ diagnostic' = TRUE
    /\ pc' = "done"
    /\ UNCHANGED <<raw_lines, transactions, filterVars, validVars, apiVars,
                   aggVars, saved_file, report, fetch_failed>>

\* lines read_sales_data may return
MainLines == {L_Widget, L_Gadget, L_Zero, L_Seven, L_BadQty}

\* the state after step [1/10]
InitMain ==
    /\ pc = "parse"
    /\ raw_lines \in SeqsUpTo(MainLines, MaxLines)
    /\ transactions = <<>>
    /\ region = None /\ min_amount = None /\ max_amount = None
    /\ InitRest

NextMain ==
    \/ ParseTransactions
    \/ ShowFilterOptions
    \/ AskFilters
    \/ ValidateAndFilter
    \/ FetchAllProducts
    \/ CreateProductMapping
    \/ EnrichSalesData
    \/ SaveEnrichedData
    \/ GenerateSalesReport
    \/ Finish
    \/ Except

SpecMain == InitMain /\ [][NextMain]_vars

-----------------------------------------------------------------------------
(* Properties of validate_and_filter *)

\* the validity rule as the specification states it
IsValidTransaction(tx) ==
    /\ required_fields \subseteq DOMAIN tx
    /\ \A f \in required_fields \ NumericFields : Len(tx[f]) > 0
    /\ tx["Quantity"] > 0
    /\ tx["UnitPrice"] > 0
    /\ Len(tx["TransactionID"]) > 0 /\ tx["TransactionID"][1] = "T"
    /\ Len(tx["ProductID"]) > 0 /\ tx["ProductID"][1] = "P"
    /\ Len(tx["CustomerID"]) > 0 /\ tx["CustomerID"][1] = "C"

\* a region filter is set: the parameter is a non-empty str ("" is how the
\* caller spells "skip", src/main.py:195)
RegionIsSet == region # None /\ Len(region[1]) > 0

Validated == pc = "fetch"

NoFilters == region = None /\ min_amount = None /\ max_amount = None

\* the input records that satisfy the specification's validity rule, in input order
ValidInOrder == SelectSeq(transactions, IsValidTransaction)

\* C1: with no filters set, validate_and_filter returns exactly the input
\* records, in input order, that have all eight required fields non-empty,
\* Quantity > 0, UnitPrice > 0 and the three ID prefixes; every other record
\* is absent and counted once in invalid_count, so no record with Quantity = 0
\* or UnitPrice = 0 is ever returned.
C1_ValidSetExact ==
    (Validated /\ NoFilters) =>
        /\ valid_transactions = ValidInOrder
        /\ invalid_count = Len(transactions) - Len(ValidInOrder)
        /\ \A i \in 1..Len(valid_transactions) :
               /\ valid_transactions[i]["Quantity"] # 0
               /\ valid_transactions[i]["UnitPrice"] # 0

C1_Witness ==
    /\ Validated /\ NoFilters
    /\ Len(transactions) = 2
    /\ Len(valid_transactions) = 1
    /\ invalid_count = 1
    /\ \E i \in 1..2 : "Quantity" \in DOMAIN transactions[i]
                       /\ transactions[i]["Quantity"] = 0

\* the filter condition of the specification on one valid record
MeetsFilters(tx) ==
    /\ RegionIsSet => tx["Region"] = region[1]
    /\ min_amount # None => tx["Quantity"] * tx["UnitPrice"] >= min_amount[1]
    /\ max_amount # None => tx["Quantity"] * tx["UnitPrice"] <= max_amount[1]

ValidAndMeetsFilters(tx) == IsValidTransaction(tx) /\ MeetsFilters(tx)

ValidInRegion(tx) ==
    IsValidTransaction(tx) /\ (RegionIsSet => tx["Region"] = region[1])

\* C2: for every filter combination the final set is exactly the valid
\* records, in input order, that match the region (when set) and whose
\* Amount = Quantity * UnitPrice lies within min_amount / max_amount (when
\* set); the region pass runs first, so filtered_by_region counts every valid
\* record of another region and filtered_by_amount only records of the region.
C2_FilteredSetExact ==
    Validated =>
        /\ valid_transactions = SelectSeq(transactions, ValidAndMeetsFilters)
        /\ \A i \in 1..Len(valid_transactions) :
               valid_transactions[i]["Amount"] =
                   valid_transactions[i]["Quantity"] * valid_transactions[i]["UnitPrice"]
        /\ filter_summary.filtered_by_region =
               Len(ValidInOrder) - Len(SelectSeq(transactions, ValidInRegion))
        /\ filter_summary.filtered_by_amount =
               Len(SelectSeq(transactions, ValidInRegion)) - Len(valid_transactions)

C2_Witness ==
    /\ Validated
    /\ RegionIsSet /\ min_amount = Some(4) /\ max_amount = None
    /\ Len(ValidInOrder) = 2
    /\ Len(valid_transactions) = 1
    /\ valid_transactions[1]["Amount"] = 4
    /\ filter_summary.filtered_by_amount = 1

\* C3: called with a region that no valid transaction has, the final set is
\* empty, final_count is 0 and filtered_by_region is the number of
\* transactions that passed validation.
C3_UnmatchedRegion ==
    (/\ Validated
     /\ RegionIsSet
     /\ \A i \in 1..Len(ValidInOrder) : ValidInOrder[i]["Region"] # region[1]) =>
        /\ valid_transactions = <<>>
        /\ filter_summary.final_count = 0
        /\ filter_summary.filtered_by_region = Len(ValidInOrder)

C3_Witness ==
    /\ Validated
    /\ region = Some(S_West)
    /\ Len(ValidInOrder) = 2
    /\ valid_transactions = <<>>
    /\ filter_summary.filtered_by_region = 2

-----------------------------------------------------------------------------
(* Properties of create_product_mapping and enrich_sales_data *)

ApiFields == {"API_Category", "API_Brand", "API_Rating", "API_Match"}

Enriched == pc = "save"

\* C4: enrich_sales_data returns a new list of the same length whose i-th
\* entry carries the fields of the i-th input transaction unchanged plus the
\* four API_ fields, and leaves the input transactions and the mapping
\* unmodified.
C4_EnrichFrame ==
    [][pc = "enrich" =>
        /\ valid_transactions' = valid_transactions
        /\ product_mapping' = product_mapping
        /\ Len(enriched_transactions') = Len(valid_transactions)
        /\ \A i \in 1..Len(valid_transactions) :
              /\ DOMAIN enriched_transactions'[i] =
                     DOMAIN valid_transactions[i] \cup ApiFields
              /\ \A f \in DOMAIN valid_transactions[i] :
                     enriched_transactions'[i][f] = valid_transactions[i][f]]_vars

C4_Witness ==
    /\ Enriched
    /\ Len(valid_transactions) = 2
    /\ Len(enriched_transactions) = 2
    /\ enriched_transactions[1]["API_Match"]
    /\ ~enriched_transactions[2]["API_Match"]
    /\ enriched_transactions[2]["ProductID"] = valid_transactions[2]["ProductID"]

\* ProductID is "P" followed by a decimal numeral
WellFormedProductID(pid) == Len(pid) >= 2 /\ pid[1] = "P" /\ AllDigits(Tail(pid))

\* the last catalog product carrying the identifier k
LastWithId(k) ==
    LET idx == {i \in 1..Len(api_products) : api_products[i].id = Some(k)}
    IN  api_products[CHOOSE i \in idx : \A j \in idx : j <= i]

AllNull(e) ==
    /\ e["API_Match"] = FALSE
    /\ e["API_Category"] = None
    /\ e["API_Brand"] = None
    /\ e["API_Rating"] = None

\* C5: for a ProductID "P" followed by the numeral k, the enriched record has
\* API_Match = true and the category/brand/rating of catalog entry k - 100
\* exactly when the mapping has the key k - 100 (the catalog has a product
\* with that id); otherwise API_Match = false and the three fields are null.
C5_MatchByOffset ==
    Enriched =>
        \A i \in 1..Len(valid_transactions) :
            LET pid == valid_transactions[i]["ProductID"]
                e   == enriched_transactions[i]
            IN  WellFormedProductID(pid) =>
                    LET key == DigitsValue(Tail(pid)) - 100 IN
                    /\ key \in DOMAIN product_mapping <=>
                           \E j \in 1..Len(api_products) : api_products[j].id = Some(key)
                    /\ IF key \in DOMAIN product_mapping
                       THEN /\ e["API_Match"] = TRUE
                            /\ e["API_Category"] = LastWithId(key).category
                            /\ e["API_Brand"] = LastWithId(key).brand
                            /\ e["API_Rating"] = LastWithId(key).rating
                       ELSE AllNull(e)

C5_Witness ==
    /\ Enriched
    /\ Len(valid_transactions) = 2
    /\ valid_transactions[1]["ProductID"] = S_P101
    /\ valid_transactions[2]["ProductID"] = S_P999
    /\ 1 \in DOMAIN product_mapping
    /\ 899 \notin DOMAIN product_mapping
    /\ enriched_transactions[1]["API_Match"] = TRUE
    /\ enriched_transactions[1]["API_Category"] = Some("beauty")
    /\ AllNull(enriched_transactions[2])

\* the text after the one-character prefix is not a non-negative decimal integer
MalformedProductID(pid) == Len(pid) < 2 \/ ~AllDigits(Tail(pid))

\* C6: a transaction with a malformed ProductID ("PP101", "P1P01", "P",
\* "Pab") is enriched with API_Match = false and three null API_ fields
\* whatever the mapping holds, and the batch goes on.
C6_MalformedNeverMatches ==
    Enriched =>
        /\ Len(enriched_transactions) = Len(valid_transactions)
        /\ \A i \in 1..Len(valid_transactions) :
               MalformedProductID(valid_transactions[i]["ProductID"]) =>
                   AllNull(enriched_transactions[i])

-----------------------------------------------------------------------------
(* Properties of top_selling_products and find_peak_sales_day *)

RECURSIVE SumOver(_, _, _, _)
\* sum of Value(tx) over the transactions of txs whose field is key
SumOver(txs, field, key, value) ==
    IF txs = <<>> THEN 0
    ELSE (IF Head(txs)[field] = key
          THEN (CASE value = "quantity" -> Head(txs)["Quantity"]
                  [] value = "revenue"  -> Head(txs)["Quantity"] * Head(txs)["UnitPrice"]
                  [] value = "count"    -> 1)
          ELSE 0)
         + SumOver(Tail(txs), field, key, value)

ProductNames == {transactions[i]["ProductName"] : i \in 1..Len(transactions)}

Dates == {transactions[i]["Date"] : i \in 1..Len(transactions)}

\* index of the first transaction carrying the value in the field
FirstSeen(field, key) ==
    CHOOSE i \in 1..Len(transactions) :
        /\ transactions[i][field] = key
        /\ \A j \in 1..(i - 1) : transactions[j][field] # key

TopDone == pc \in {"peak", "returned"}

\* C8: top_selling_products(tx, n), n >= 0, returns at most n tuples (the
\* first n of the ranking), each the (ProductName, total_quantity,
\* total_revenue) aggregate of a distinct product, ordered by total_quantity
\* non-increasing with equal quantities in order of first appearance; no
\* omitted product has a larger total_quantity than an included one.
C8_TopSelling ==
    TopDone =>
        /\ Len(top_products) <= top_n
        /\ Len(top_products) = IF top_n < Cardinality(ProductNames)
                               THEN top_n ELSE Cardinality(ProductNames)
        /\ \A i \in 1..Len(top_products) :
               /\ top_products[i][1] \in ProductNames
               /\ top_products[i][2] =
                      SumOver(transactions, "ProductName", top_products[i][1], "quantity")
               /\ top_products[i][3] =
                      SumOver(transactions, "ProductName", top_products[i][1], "revenue")
        /\ \A i, j \in 1..Len(top_products) :
               i < j =>
                   /\ top_products[i][1] # top_products[j][1]
                   /\ top_products[i][2] >= top_products[j][2]
                   /\ top_products[i][2] = top_products[j][2] =>
                          FirstSeen("ProductName", top_products[i][1])
                              < FirstSeen("ProductName", top_products[j][1])
        /\ \A p \in ProductNames :
               (\A i \in 1..Len(top_products) : top_products[i][1] # p) =>
                   \A i \in 1..Len(top_products) :
                       SumOver(transactions, "ProductName", p, "quantity")
                           <= top_products[i][2]

\* three products, two of them tied and first seen in the other order than
\* the ranking of the third, n = 2
C8_Witness ==
    /\ TopDone
    /\ top_n = 2
    /\ Cardinality(ProductNames) = 3
    /\ Len(top_products) = 2
    /\ top_products[1][2] = top_products[2][2]
    /\ FirstSeen("ProductName", top_products[1][1]) = 2

PeakDone == pc = "returned"

\* C9: on a non-empty valid transaction set find_peak_sales_day returns
\* (date, revenue, transaction_count) with that date's totals, no date has a
\* larger revenue, and of the dates with the maximal revenue it is the one
\* first met in the input.
C9_PeakDay ==
    (PeakDone /\ Len(transactions) > 0) =>
        /\ peak_day # None
        /\ LET date == peak_day[1][1] IN
           /\ date \in Dates
           /\ peak_day[1][2] = SumOver(transactions, "Date", date, "revenue")
           /\ peak_day[1][3] = SumOver(transactions, "Date", date, "count")
           /\ \A d \in Dates :
                  /\ SumOver(transactions, "Date", d, "revenue") <= peak_day[1][2]
                  /\ SumOver(transactions, "Date", d, "revenue") = peak_day[1][2] =>
                         FirstSeen("Date", date) <= FirstSeen("Date", d)

\* two dates tie for the maximum; the one met first is returned
C9_Witness ==
    /\ PeakDone
    /\ Len(transactions) = 3
    /\ peak_day # None
    /\ \E d \in Dates :
           /\ d # peak_day[1][1]
           /\ SumOver(transactions, "Date", d, "revenue") = peak_day[1][2]
           /\ FirstSeen("Date", peak_day[1][1]) < FirstSeen("Date", d)
    /\ peak_day[1][3] = 2

-----------------------------------------------------------------------------
(* Properties of parse_transactions *)

\* positions of the separators of a line, and its k-th field, by position
Pipes(line) == {i \in 1..Len(line) : line[i] = "|"}

PipeAt(line, k) ==
    IF k = 0 THEN 0
    ELSE IF k > Cardinality(Pipes(line)) THEN Len(line) + 1
    ELSE CHOOSE i \in Pipes(line) :
             Cardinality({j \in Pipes(line) : j < i}) = k - 1

Field(line, k) == SubSeq(line, PipeAt(line, k - 1) + 1, PipeAt(line, k) - 1)

EightFieldLine(line) == Cardinality(Pipes(line)) = 7

WithoutCommas(s) == LET NotComma(c) == c # "," IN SelectSeq(s, NotComma)

NumericLine(line) ==
    /\ PyInt(WithoutCommas(Field(line, 5))) # None
    /\ PyFloat(WithoutCommas(Field(line, 6))) # None

\* the record the specification gives for an 8-field line with numeric fields
RecordOf(line) ==
    [TransactionID |-> Field(line, 1), Date |-> Field(line, 2),
     ProductID |-> Field(line, 3), ProductName |-> WithoutCommas(Field(line, 4)),
     Quantity |-> PyInt(WithoutCommas(Field(line, 5)))[1],
     UnitPrice |-> PyFloat(WithoutCommas(Field(line, 6)))[1],
     CustomerID |-> Field(line, 7), Region |-> Field(line, 8)]

EightFieldLines == SelectSeq(raw_lines, EightFieldLine)

ParseLeft == pc \in {"options", "except"}

\* C10: when every 8-field line has numeric Quantity and UnitPrice,
\* parse_transactions returns (without raising) exactly one record per line
\* that splits into 8 fields, in input order, and nothing for any other
\* line: the skipped lines raise no error and change no other record.
C10_OneRecordPerEightFieldLine ==
    (ParseLeft /\ \A i \in 1..Len(EightFieldLines) : NumericLine(EightFieldLines[i])) =>
        /\ pc = "options"
        /\ Len(transactions) = Len(EightFieldLines)
        /\ \A i \in 1..Len(EightFieldLines) :
               transactions[i] = RecordOf(EightFieldLines[i])

C10_Witness ==
    /\ pc = "options"
    /\ raw_lines = <<L_Nine, L_Gadget>>
    /\ Len(transactions) = 1
    /\ transactions[1]["Quantity"] = 10
    /\ transactions[1]["UnitPrice"] = 4
    /\ transactions[1]["Region"] = S_South

-----------------------------------------------------------------------------
(* Properties of main *)

ReportComplete == report = SectionsBeforePeak \o SectionsAfterPeak

\* a failed fetch returns [] without raising, the mapping built from it is
\* empty and no record of the run is matched
FetchFailureDegrades ==
    fetch_failed =>
        /\ pc # "except" \/ saved_file # None
        /\ api_products = <<>>
        /\ DOMAIN product_mapping = {}
        /\ \A i \in 1..Len(enriched_transactions) :
               enriched_transactions[i]["API_Match"] = FALSE
        /\ pc \in {"report", "finish", "done"} =>
               saved_file = Some(Len(valid_transactions))

\* with a non-empty final set the run that could not fetch ends with the
\* complete report and no diagnostic
FetchFailureReportWhenNonEmpty ==
    (fetch_failed /\ pc = "done" /\ valid_transactions # <<>>) =>
        (ReportComplete /\ ~diagnostic)

\* C7: when the catalog fetch fails, fetch_all_products returns [] instead
\* of raising, the mapping is empty, every enriched record has
\* API_Match = false, and the run goes on to save the enriched data and to
\* generate the report.
C7_FetchFailureContinues ==
    /\ FetchFailureDegrades
    /\ (fetch_failed /\ pc = "done") => (saved_file # None /\ ReportComplete)

\* some 8-field line has a Quantity or a UnitPrice that is no number once
\* its commas are removed
HasNonNumericLine ==
    \E i \in 1..Len(EightFieldLines) : ~NumericLine(EightFieldLines[i])

\* C11: if an 8-field line has a non-numeric Quantity or UnitPrice, parsing
\* fails for the whole run: no transaction of the input (the lines before
\* the bad one included) reaches validation, enrichment, the enriched file
\* or the report, and the run ends with the diagnostic.
C11_BadNumberAbortsRun ==
    HasNonNumericLine =>
        /\ pc \in {"parse", "except", "done"}
        /\ transactions = <<>>
        /\ valid_transactions = <<>>
        /\ filter_summary = NoSummary
        /\ enriched_transactions = <<>>
        /\ saved_file = None
        /\ report = <<>>
        /\ pc = "done" => diagnostic

\* a good line before the bad one; the run has ended
C11_Witness ==
    /\ raw_lines = <<L_Widget, L_BadQty>>
    /\ pc = "done"
    /\ diagnostic
    /\ transactions = <<>>
    /\ report = <<>>

-----------------------------------------------------------------------------
(* Property of filter_summary *)

\* C12: for every input and every filter combination the summary satisfies
\* total_input = invalid + filtered_by_region + filtered_by_amount +
\* final_count, final_count is the length of the returned list, invalid is
\* the returned invalid_count, and no counter is negative.
C12_SummaryAddsUp ==
    Validated =>
        /\ filter_summary.total_input =
               filter_summary.invalid + filter_summary.filtered_by_region
               + filter_summary.filtered_by_amount + filter_summary.final_count
        /\ filter_summary.total_input = Len(transactions)
        /\ filter_summary.final_count = Len(valid_transactions)
        /\ filter_summary.invalid = invalid_count
        /\ filter_summary.total_input >= 0
        /\ filter_summary.invalid >= 0
        /\ filter_summary.filtered_by_region >= 0
        /\ filter_summary.filtered_by_amount >= 0
        /\ filter_summary.final_count >= 0

\* both amount passes remove a record
C12_Witness ==
    /\ Validated
    /\ min_amount = Some(4) /\ max_amount = Some(2)
    /\ filter_summary.total_input = 2
    /\ filter_summary.filtered_by_amount = 2
    /\ filter_summary.final_count = 0
    /\ filter_summary.invalid = 0

-----------------------------------------------------------------------------
(* Completion of the run *)

\* a prompt answer was refused by float(): records were parsed and the run
\* ended before validation
FilterAnswerRejected == transactions # <<>> /\ filter_summary = NoSummary

\* with a non-empty final set the run ends with the enriched file saved, the
\* complete report and no diagnostic
RunCompletesWhenNonEmpty ==
    (pc = "done" /\ valid_transactions # <<>>) =>
        /\ saved_file = Some(Len(valid_transactions))
        /\ ReportComplete
        /\ peak_day # None
        /\ ~diagnostic

\* C13: every run in which parsing succeeds completes validate/filter,
\* catalog fetch, enrich, save and report, and its report is complete with
\* the peak-day section, for every filter choice, also when the final valid
\* set is empty and when no line parses to a record.
C13_RunCompletesReport ==
    (pc = "done" /\ ~HasNonNumericLine /\ ~FilterAnswerRejected) =>
        /\ saved_file # None
        /\ ReportComplete
        /\ ~diagnostic

====
